---------------------------- MODULE Spec2Model ----------------------------
(***************************************************************************)
(* The CPU multigrid engine of gpu-solve (src/src/cpu/CpuSolver.cpp) on    *)
(* the dense fields of src/src/Vector3.cpp.                                *)
(*                                                                         *)
(* Arithmetic.  The engine never compares two doubles and never branches   *)
(* on one: every double is produced by +, -, *, / (and exp, sqrt) from     *)
(* other doubles.  The model computes in the prime field Z_P, where these  *)
(* four operations are exact and every run stays finite.  A counterexample *)
(* found in Z_P is two different polynomial expressions of the inputs, so  *)
(* it is one over the reals as well.  exp has no counterpart in Z_P and is *)
(* a fixed function with Exp(0) = 1; sqrt is kept symbolic (SqrtOf).       *)
(* Rounding of doubles is not modelled.                                    *)
(***************************************************************************)
EXTENDS Integers, Sequences, FiniteSets, TLC

VARIABLES
    grid,   \* CpuGridData: the parameters and the levels (LevelData) with their fields
    pc,     \* where the engine is: "idle" between calls, else a place in solve/vcycle/jacobi
    frame,  \* the loop counters of solve (it), vcycle (i) and jacobi (jl, jn, ji)
    hist,   \* what has been executed: the calls of the current V-cycle, the cycles of the current solve
    wrote,  \* the targets <<level, field, x, y, z>> of every set() of the last kernel step
    ret,    \* the value last returned by compResidual / vcycle
    par,    \* a kernel's parallel region: the team, each thread's progress, the shards
    pre     \* the hierarchy as it was when the last kernel or parallel region began

vars == <<pc, frame, hist, wrote, ret, par, pre, grid>>

---------------------------------------------------------------------------
(* Bounds of the model *)

MaxIter == 2        \* grid.maxiter ranges over 0..MaxIter
MaxNu == 1          \* preSmoothing and postSmoothing range over 0..MaxNu
MaxOps == 2         \* engine operations invoked in one run
MaxThreads == 2     \* team sizes 1..MaxThreads whose interleavings are explored
MaxCoef == 1        \* coefficients of the affine test field range over 0..MaxCoef

---------------------------------------------------------------------------
(* double, as elements of Z_P *)

P == 2^15 - 19      \* 32749, a prime; products of two residues fit a 32-bit integer

Num(n) == n % P
Add(a, b) == (a + b) % P
Sub(a, b) == (a - b) % P
Mul(a, b) == (a * b) % P

\* x * x
Sq == [x \in 0 .. P - 1 |-> (x * x) % P]

\* the one element of S.  Used for a value computed once and used again, and
\* for a statement sequence: S then holds the state the last statement leaves,
\* each earlier state bound by a set constructor
The(S) == CHOOSE r \in S : TRUE

\* the inverse of b: b^(P-2) (and 0 for b = 0, where a double gives inf),
\* by repeated squaring.  P - 2 is 1 11111 11110 1011 in binary: from b, one
\* squaring for each bit after the first, times b where the bit is 1
Inverse(b) ==
    The({The({Mul(Sq[Mul(Sq[Sq[Mul(Sq[r2], x)]], x)], x) :
              r2 \in {Sq[Mul(Sq[Mul(Sq[Mul(Sq[Mul(Sq[r1], x)], x)], x)], x)] :
              r1 \in {Mul(Sq[Mul(Sq[Mul(Sq[Mul(Sq[Mul(Sq[x], x)], x)], x)], x)], x)}}}) :
         x \in {b}})

\* a / b
Div(a, b) == Mul(a, Inverse(b))

Half == Div(1, 2)                               \* the literal 0.5
Eighth == Div(1, 8)                             \* the literal 0.125

\* exp(x): a fixed function of its argument with exp(0) = 1
Exp(x) == Add(Add(1, x), Mul(Half, Mul(x, x)))

\* sqrt(x), symbolic: two results are equal iff their radicands are
SqrtOf(x) == <<"sqrt", x>>

Abs(n) == IF n < 0 THEN -n ELSE n

---------------------------------------------------------------------------
(* Vector3 *)

\* Vector3::Vector3: dims and x*y*z zero-initialised values
NewVector3(x, y, z) ==
    [dims |-> <<x, y, z>>, values |-> [i \in 0 .. x * y * z - 1 |-> 0]]

\* idx = (z * dims[0] * dims[1]) + (y * dims[0]) + x
Idx(dims, x, y, z) == (z * dims[1] * dims[2]) + (y * dims[1]) + x

\* the coordinates of flat index i (the inverse of Idx on in-range coordinates)
Coord(dims, i) ==
    <<i % dims[1], (i \div dims[1]) % dims[2], i \div (dims[1] * dims[2])>>

Get(vec, x, y, z) == vec.values[Idx(vec.dims, x, y, z)]

Set(vec, x, y, z, val) ==
    [vec EXCEPT !.values[Idx(vec.dims, x, y, z)] = val]

\* a loop of set() calls: w maps each target <<x, y, z>> to the value stored
\* there; no target is read by the loop that writes it
SetAll(vec, w) ==
    The({[vec EXCEPT !.values =
             [i \in DOMAIN vec.values |->
                 IF Coord(vec.dims, i) \in DOMAIN stored
                 THEN stored[Coord(vec.dims, i)] ELSE vec.values[i]]] :
         stored \in {w}})

Fill(vec, val) == [vec EXCEPT !.values = [i \in DOMAIN vec.values |-> val]]

PlusEq(a, b) ==
    [a EXCEPT !.values = [i \in DOMAIN a.values |-> Add(a.values[i], b.values[i])]]

MinusEq(a, b) ==
    [a EXCEPT !.values = [i \in DOMAIN a.values |-> Sub(a.values[i], b.values[i])]]

Evens(n) == {k \in 0 .. n - 1 : k % 2 = 0}

Cells(dims) == (0 .. dims[1] - 1) \X (0 .. dims[2] - 1) \X (0 .. dims[3] - 1)

\* a cell of a padded field that is not a halo cell
IsInterior(dims, c) ==
    /\ 1 <= c[1] /\ c[1] <= dims[1] - 2
    /\ 1 <= c[2] /\ c[2] <= dims[2] - 2
    /\ 1 <= c[3] /\ c[3] <= dims[3] - 2

IsCell(dims, c) ==
    /\ 0 <= c[1] /\ c[1] < dims[1]
    /\ 0 <= c[2] /\ c[2] < dims[2]
    /\ 0 <= c[3] /\ c[3] < dims[3]

---------------------------------------------------------------------------
(* Stencil and hierarchy (CpuGridData is constructed outside CpuSolver) *)

\* the 7-point operator of the configuration: values, then the x, y, z offsets
Stencil7 ==
    [values  |-> <<Num(6), Num(-1), Num(-1), Num(-1), Num(-1), Num(-1), Num(-1)>>,
     offsets |-> << <<0, 0, 0>>, <<1, 0, 0>>, <<-1, 0, 0>>, <<0, 1, 0>>,
                    <<0, -1, 0>>, <<0, 0, 1>>, <<0, 0, -1>> >>]

\* the interior extent of the next coarser level
CoarseDim(d) == <<(d[1] - 1) \div 2, (d[2] - 1) \div 2, (d[3] - 1) \div 2>>

RECURSIVE LevelDims(_, _)
LevelDims(d, n) == IF n = 1 THEN <<d>> ELSE <<d>> \o LevelDims(CoarseDim(d), n - 1)

\* gridParams.h = 1.0 / (gridParams.gridDim[1] + 1)
FinestH(gridDim) == Div(1, Num(gridDim[2] + 1))

\* a level: interior extent d, spacing h, the five fields padded by one halo cell
NewLevel(d, h) ==
    LET z == NewVector3(d[1] + 2, d[2] + 2, d[3] + 2)
    IN  [levelDim |-> d, h |-> h, v |-> z, f |-> z, r |-> z, e |-> z, restV |-> z]

\* a field of interior extent d holding w[c] on every cell c of the domain
\* of w, and zero elsewhere
Filled(d, w) == SetAll(NewVector3(d[1] + 2, d[2] + 2, d[3] + 2), w)

\* the cells of a field of interior extent d, the halo cells included
Padded(d) == Cells(<<d[1] + 2, d[2] + 2, d[3] + 2>>)

\* the hierarchy of n levels under gridDim, all fields zero
NewGrid(gridDim, n, isLinear, nu1, nu2, maxiter) ==
    LET ds == LevelDims(gridDim, n)
    IN  [isLinear      |-> isLinear,
         gamma         |-> 1,
         omega         |-> 1,
         preSmoothing  |-> nu1,
         postSmoothing |-> nu2,
         maxiter       |-> maxiter,
         stencil       |-> Stencil7,
         levels        |-> [l \in 1 .. n |->
                               NewLevel(ds[l], Mul(Num(2^(l - 1)), FinestH(gridDim)))]]

\* grid.numLevels()
numLevels(g) == Len(g.levels)

\* grid.getLevel(levelNum), levelNum counted from 0 as in the code
getLevel(g, levelNum) == g.levels[levelNum + 1]

FieldNames == {"v", "f", "r", "e", "restV"}

---------------------------------------------------------------------------
(* The kernels of CpuSolver, point by point.  A point's record holds the   *)
(* value its set() stores (val) and the cells <<field, x, y, z>> its get() *)
(* calls read (reads).                                                     *)

\* x < levelDim[0]+1, y < levelDim[1]+1, z < levelDim[2]+1, each from 1
InteriorLoop(levelDim) == (1 .. levelDim[1]) \X (1 .. levelDim[2]) \X (1 .. levelDim[3])

\* stencilsum over the entries i, i+1, ... of the stencil
RECURSIVE StencilSum(_, _, _, _, _, _)
StencilSum(stencil, vec, x, y, z, i) ==
    IF i > Len(stencil.values) THEN 0
    ELSE Add(Mul(stencil.values[i],
                 Get(vec, x + stencil.offsets[i][1], y + stencil.offsets[i][2],
                          z + stencil.offsets[i][3])),
             StencilSum(stencil, vec, x, y, z, i + 1))

StencilReads(stencil, fld, x, y, z) ==
    {<<fld, x + stencil.offsets[i][1], y + stencil.offsets[i][2],
            z + stencil.offsets[i][3]>> : i \in 1 .. Len(stencil.offsets)}

\* the loop body of compResidual at (x, y, z): r = f - (stencilsum / h^2 [+ gamma v exp(v)])
ResidualPoint(g, level, x, y, z) ==
    LET sum == Div(StencilSum(g.stencil, level.v, x, y, z, 1), Mul(level.h, level.h))
        vv  == Get(level.v, x, y, z)
        s   == IF ~g.isLinear THEN Add(sum, Mul(Mul(g.gamma, vv), Exp(vv))) ELSE sum
    IN  [val   |-> Sub(Get(level.f, x, y, z), s),
         reads |-> StencilReads(g.stencil, "v", x, y, z) \cup {<<"f", x, y, z>>}]

\* mutant: the update reads v of the x-plane below, as a Gauss-Seidel sweep would
JacobiPointFromBelow(g, level, x, y, z) ==
    LET alpha  == Div(Mul(level.h, level.h), g.stencil.values[1])
        vv     == Get(level.v, x - 1, y, z)
        rr     == Get(level.r, x, y, z)
    IN  [val   |-> Add(vv, Mul(g.omega, Mul(alpha, rr))),
         reads |-> {<<"v", x - 1, y, z>>, <<"r", x, y, z>>}]

\* the loop body of jacobi's update at (x, y, z)
JacobiPoint(g, level, x, y, z) ==
    LET preFac == Div(g.stencil.values[1], Mul(level.h, level.h))
        alpha  == Div(Mul(level.h, level.h), g.stencil.values[1])
        vv     == Get(level.v, x, y, z)
        rr     == Get(level.r, x, y, z)
        den    == Add(preFac, Mul(Mul(g.gamma, Add(1, vv)), Exp(vv)))
    IN  [val   |-> IF g.isLinear
                   THEN Add(vv, Mul(g.omega, Mul(alpha, rr)))
                   ELSE Add(vv, Mul(g.omega, Div(rr, den))),
         reads |-> {<<"v", x, y, z>>, <<"r", x, y, z>>}]

\* the loop body of applyStencil at (x, y, z); vname names the field passed as v
StencilPoint(g, level, vname, x, y, z) ==
    LET vin == level[vname]
        sum == Div(StencilSum(g.stencil, vin, x, y, z, 1), Mul(level.h, level.h))
        vv  == Get(vin, x, y, z)
    IN  [val   |-> Add(sum, Mul(Mul(g.gamma, vv), Exp(vv))),
         reads |-> StencilReads(g.stencil, vname, x, y, z)]

\* 1 <= x < coarse.getXdim()-1, and so for y and z
RestrictLoop(coarse) ==
    (1 .. coarse.dims[1] - 2) \X (1 .. coarse.dims[2] - 2) \X (1 .. coarse.dims[3] - 2)

\* mutant: fac without the factor 0.125
FacUnscaled(ii, jj, kk) ==
    Mul(Mul(Div(Num(2 - Abs(ii)), 2), Div(Num(2 - Abs(jj)), 2)), Div(Num(2 - Abs(kk)), 2))

\* fac = 0.125 * ((2.0 - abs(ii)) / 2.0) * ((2.0 - abs(jj)) / 2.0) * ((2.0 - abs(kk)) / 2.0)
Fac(ii, jj, kk) ==
    Mul(Mul(Mul(Eighth, Div(Num(2 - Abs(ii)), 2)), Div(Num(2 - Abs(jj)), 2)),
        Div(Num(2 - Abs(kk)), 2))

\* ii, jj, kk from -2 + 1 while < 2, in the order of the three loops
RestrictOffsets ==
    [n \in 1 .. 27 |-> <<((n - 1) \div 9) - 1, (((n - 1) \div 3) % 3) - 1, ((n - 1) % 3) - 1>>]

\* one of the loops for (int ii = -2 + 1; ii < 2; ii++): the terms t[-1], t[0],
\* t[1] added up in that order
Sum3(t) == Add(Add(t[-1], t[0]), t[1])

\* coarseValue: the three nested loops around the fine centre (2x, 2y, 2z)
RestrictSum(fine, x, y, z) ==
    Sum3([ii \in -1 .. 1 |->
        Sum3([jj \in -1 .. 1 |->
            Sum3([kk \in -1 .. 1 |->
                Mul(Fac(ii, jj, kk),
                    Get(fine, 2 * x + ii, 2 * y + jj, 2 * z + kk))])])])

\* mutant: coarse.set(x - 1, y, z, coarseValue)
RestrictTargetShifted(x, y, z) == <<x - 1, y, z>>

\* the coordinate written by coarse.set for the loop indices (x, y, z)
RestrictTarget(x, y, z) == <<x, y, z>>

\* the loop body of restrict at the coarse point (x, y, z); fname names the fine field
RestrictPoint(fine, fname, x, y, z) ==
    [val   |-> RestrictSum(fine, x, y, z),
     reads |-> {<<fname, 2 * x + RestrictOffsets[n][1], 2 * y + RestrictOffsets[n][2],
                         2 * z + RestrictOffsets[n][3]>> : n \in 1 .. Len(RestrictOffsets)}]

---------------------------------------------------------------------------
(* The kernels as run by a team of one thread *)

ResidualWrites(g, level) ==
    [c \in InteriorLoop(level.levelDim) |-> ResidualPoint(g, level, c[1], c[2], c[3]).val]

\* the sum of the squares of vec over its cells in cells
SumSq(vec, cells) ==
    LET part[lo \in Nat, hi \in Nat] ==
            IF lo > hi THEN 0
            ELSE IF lo = hi
                 THEN IF Coord(vec.dims, lo) \in cells
                      THEN Sq[vec.values[lo]] ELSE 0
                 ELSE Add(part[lo, (lo + hi) \div 2], part[((lo + hi) \div 2) + 1, hi])
    IN  part[0, vec.dims[1] * vec.dims[2] * vec.dims[3] - 1]

\* compResidual(grid, levelNum): the hierarchy after the call
compResidual(g, levelNum) ==
    [g EXCEPT !.levels[levelNum + 1].r = SetAll(@, ResidualWrites(g, getLevel(g, levelNum)))]

\* compResidual(grid, levelNum): the value returned, g being the hierarchy after the call
residualNorm(g, levelNum) ==
    LET level == getLevel(g, levelNum)
    IN  SqrtOf(SumSq(level.r, InteriorLoop(level.levelDim)))

\* mutant: jacobi's x loop begins at 0
JacobiLoopFromZero(levelDim) == (0 .. levelDim[1]) \X (1 .. levelDim[2]) \X (1 .. levelDim[3])

\* x < levelDim[0]+1, y < levelDim[1]+1, z < levelDim[2]+1, each from 1
JacobiLoop(levelDim) == (1 .. levelDim[1]) \X (1 .. levelDim[2]) \X (1 .. levelDim[3])

JacobiWrites(g, level) ==
    [c \in JacobiLoop(level.levelDim) |-> JacobiPoint(g, level, c[1], c[2], c[3]).val]

\* one pass of jacobi's loop: compResidual, then the update of v
jacobiSweep(g, levelNum) ==
    The({[g1 EXCEPT !.levels[levelNum + 1].v =
                        SetAll(@, JacobiWrites(g1, getLevel(g1, levelNum)))] :
         g1 \in {compResidual(g, levelNum)}})

StencilWrites(g, level, vname) ==
    [c \in InteriorLoop(level.levelDim) |->
        StencilPoint(g, level, vname, c[1], c[2], c[3]).val]

\* applyStencil(grid, levelNum, v): result is level.r
applyStencil(g, levelNum, vname) ==
    [g EXCEPT !.levels[levelNum + 1].r =
                  SetAll(@, StencilWrites(g, getLevel(g, levelNum), vname))]

\* the targets of coarse.set over the loop of restrict
RestrictTargets(coarse) == {RestrictTarget(c[1], c[2], c[3]) : c \in RestrictLoop(coarse)}

RestrictWrites(fine, coarse) ==
    [t \in RestrictTargets(coarse) |->
        LET c == CHOOSE c \in RestrictLoop(coarse) : RestrictTarget(c[1], c[2], c[3]) = t
        IN  RestrictPoint(fine, "fine", c[1], c[2], c[3]).val]

\* restrict(fine, coarse): the coarse field after the call
restrict(fine, coarse) == SetAll(coarse, RestrictWrites(fine, coarse))

\* the index of the coarse cell injected at the fine index x
InjectSrc(x) == x \div 2

\* "prepare": x, y, z from 0 in steps of 2 while < fine.getXdim() - 1 (Ydim, Zdim)
InjectTargets(fine) ==
    Evens(fine.dims[1] - 1) \X Evens(fine.dims[2] - 1) \X Evens(fine.dims[3] - 1)

\* fine(x, y, z) = coarse(x/2, y/2, z/2)
InjectWrites(coarse, fine) ==
    [c \in InjectTargets(fine) |->
        Get(coarse, InjectSrc(c[1]), InjectSrc(c[2]), InjectSrc(c[3]))]

\* x-direction: x even, x+2 < Xdim; y, z even below Ydim, Zdim; the target is (x+1, y, z)
XTargets(fine) ==
    {<<x + 1, y, z>> : x \in {k \in Evens(fine.dims[1]) : k + 2 < fine.dims[1]},
                       y \in Evens(fine.dims[2]), z \in Evens(fine.dims[3])}

\* mutant: fine(x+1, y, z) = fine(x, y, z)
XWritesCopy(fine) ==
    [t \in XTargets(fine) |-> Get(fine, t[1] - 1, t[2], t[3])]

\* fine(x+1, y, z) = 0.5 fine(x, y, z) + 0.5 fine(x+2, y, z)
XWrites(fine) ==
    [t \in XTargets(fine) |->
        Add(Mul(Half, Get(fine, t[1] - 1, t[2], t[3])),
            Mul(Half, Get(fine, t[1] + 1, t[2], t[3])))]

\* y-direction: every x; y even, y+2 < Ydim; z even; the target is (x, y+1, z)
YTargets(fine) ==
    {<<x, y + 1, z>> : x \in 0 .. fine.dims[1] - 1,
                       y \in {k \in Evens(fine.dims[2]) : k + 2 < fine.dims[2]},
                       z \in Evens(fine.dims[3])}

YWrites(fine) ==
    [t \in YTargets(fine) |->
        Add(Mul(Half, Get(fine, t[1], t[2] - 1, t[3])),
            Mul(Half, Get(fine, t[1], t[2] + 1, t[3])))]

\* z-direction: every x and y; z even, z+2 < Zdim; the target is (x, y, z+1)
ZTargets(fine) ==
    {<<x, y, z + 1>> : x \in 0 .. fine.dims[1] - 1, y \in 0 .. fine.dims[2] - 1,
                       z \in {k \in Evens(fine.dims[3]) : k + 2 < fine.dims[3]}}

ZWrites(fine) ==
    [t \in ZTargets(fine) |->
        Add(Mul(Half, Get(fine, t[1], t[2], t[3] - 1)),
            Mul(Half, Get(fine, t[1], t[2], t[3] + 1)))]

\* the four passes of interpolate on the fine field, in the order of the code
InterpolateField(coarse, fine) ==
    The({SetAll(e3, ZWrites(e3)) :
         e3 \in {SetAll(e2, YWrites(e2)) :
         e2 \in {SetAll(e1, XWrites(e1)) :
         e1 \in {SetAll(fine, InjectWrites(coarse, fine))}}}})

\* every target of a set() of interpolate
InterpolateTargets(fine) ==
    InjectTargets(fine) \cup XTargets(fine) \cup YTargets(fine) \cup ZTargets(fine)

\* interpolate(grid, level): coarse is v of level+1, fine is e of level
interpolate(g, level) ==
    [g EXCEPT !.levels[level + 1].e = InterpolateField(getLevel(g, level + 1).v, @)]

---------------------------------------------------------------------------
(* The engine: solve, vcycle and jacobi as they step from kernel to kernel *)

NoPar == [kernel |-> "none"]

TargetsOf(levelNum, fld, cells) == {<<levelNum, fld, c[1], c[2], c[3]>> : c \in cells}

Logged(ev) == [hist EXCEPT !.log = Append(@, ev)]

Invoked(op) == [hist EXCEPT !.nops = @ + 1, !.last = "none"]

\* the engine is between two calls and the run may invoke another operation
Idle == pc = "idle" /\ hist.nops < hist.budget

LevelNums == 0 .. numLevels(grid) - 1

\* a call of compResidual(grid, l) from outside the engine
CallCompResidual(l) ==
    /\ Idle
    /\ grid' = compResidual(grid, l)
    /\ ret' = residualNorm(grid', l)
    /\ wrote' = TargetsOf(l, "r", InteriorLoop(getLevel(grid, l).levelDim))
    /\ hist' = [Invoked("compResidual") EXCEPT !.last = "compResidual"]
    /\ UNCHANGED <<pc, frame, par, pre>>

\* a call of applyStencil(grid, l, level.<vname>) from outside the engine
CallApplyStencil(l, vname) ==
    /\ Idle
    /\ grid' = applyStencil(grid, l, vname)
    /\ wrote' = TargetsOf(l, "r", InteriorLoop(getLevel(grid, l).levelDim))
    /\ hist' = [Invoked("applyStencil") EXCEPT !.last = "applyStencil"]
    /\ UNCHANGED <<pc, frame, ret, par, pre>>

\* a call of restrict(level l's <from>, level l+1's <to>) from outside the engine
CallRestrict(l, from, to) ==
    /\ Idle
    /\ l + 1 < numLevels(grid)
    /\ grid' = [grid EXCEPT !.levels[l + 2][to] = restrict(getLevel(grid, l)[from], @)]
    /\ wrote' = TargetsOf(l + 1, to,
                          RestrictTargets(getLevel(grid, l + 1)[to]))
    /\ hist' = [Invoked("restrict") EXCEPT !.last = "restrict"]
    /\ UNCHANGED <<pc, frame, ret, par, pre>>

\* a call of interpolate(grid, l) from outside the engine
CallInterpolate(l) ==
    /\ Idle
    /\ l + 1 < numLevels(grid)
    /\ grid' = interpolate(grid, l)
    /\ wrote' = TargetsOf(l, "e", InterpolateTargets(getLevel(grid, l).e))
    /\ hist' = [Invoked("interpolate") EXCEPT !.last = "interpolate"]
    /\ UNCHANGED <<pc, frame, ret, par, pre>>

\* jacobi(grid, levelNum, maxiter) is entered; the engine continues at back when it returns
EnterJacobi(levelNum, maxiter, back) ==
    [frame EXCEPT !.jl = levelNum, !.jn = maxiter, !.ji = 0, !.jret = back]

\* a call of jacobi(grid, l, n) from outside the engine
CallJacobi(l, n) ==
    /\ Idle
    /\ pc' = "jacobi"
    /\ frame' = [EnterJacobi(l, n, "idle") EXCEPT !.op = "jacobi"]
    /\ hist' = Invoked("jacobi")
    /\ wrote' = {}
    /\ UNCHANGED <<grid, ret, par, pre>>

\* one pass of jacobi's loop, i < maxiter
JacobiSweep ==
    /\ pc = "jacobi"
    /\ frame.ji < frame.jn
    /\ grid' = jacobiSweep(grid, frame.jl)
    /\ wrote' = TargetsOf(frame.jl, "r", InteriorLoop(getLevel(grid, frame.jl).levelDim))
                  \cup TargetsOf(frame.jl, "v", JacobiLoop(getLevel(grid, frame.jl).levelDim))
    /\ frame' = [frame EXCEPT !.ji = @ + 1]
    /\ hist' = Logged(<<"jacobi", frame.jl>>)
    /\ UNCHANGED <<pc, ret, par, pre>>

\* jacobi's loop ends and jacobi returns
JacobiReturn ==
    /\ pc = "jacobi"
    /\ ~(frame.ji < frame.jn)
    /\ pc' = frame.jret
    /\ frame' = IF frame.jret = "idle" THEN [frame EXCEPT !.op = "none"] ELSE frame
    /\ hist' = IF frame.jret = "idle" THEN [hist EXCEPT !.last = "jacobi"] ELSE hist
    /\ wrote' = {}
    /\ UNCHANGED <<grid, ret, par, pre>>

\* a call of vcycle(grid) from outside the engine
CallVcycle ==
    /\ Idle
    /\ pc' = "down"
    /\ frame' = [frame EXCEPT !.op = "vcycle", !.i = 0]
    /\ hist' = [Invoked("vcycle") EXCEPT !.log = <<>>]
    /\ wrote' = {}
    /\ UNCHANGED <<grid, ret, par, pre>>

\* first loop of vcycle, i < numLevels()-1: jacobi(grid, i, preSmoothing)
VDownJacobi ==
    /\ pc = "down"
    /\ frame.i < numLevels(grid) - 1
    /\ pc' = "jacobi"
    /\ frame' = EnterJacobi(frame.i, grid.preSmoothing, "down_res")
    /\ wrote' = {}
    /\ UNCHANGED <<grid, hist, ret, par, pre>>

\* compResidual(grid, i)
VDownResidual ==
    /\ pc = "down_res"
    /\ grid' = compResidual(grid, frame.i)
    /\ wrote' = TargetsOf(frame.i, "r", InteriorLoop(getLevel(grid, frame.i).levelDim))
    /\ pc' = "down_restrict"
    /\ hist' = Logged(<<"residual", frame.i>>)
    /\ UNCHANGED <<frame, ret, par, pre>>

\* restrict(r, nextLevel.f)
VDownRestrict ==
    /\ pc = "down_restrict"
    /\ grid' = [grid EXCEPT !.levels[frame.i + 2].f = restrict(getLevel(grid, frame.i).r, @)]
    /\ wrote' = TargetsOf(frame.i + 1, "f",
                          RestrictTargets(getLevel(grid, frame.i + 1).f))
    /\ pc' = "down_init"
    /\ hist' = Logged(<<"restrict", frame.i>>)
    /\ UNCHANGED <<frame, ret, par, pre>>

\* isLinear: nextLevel.v.fill(0.0); then i++
VDownFill ==
    /\ pc = "down_init"
    /\ grid.isLinear
    /\ grid' = [grid EXCEPT !.levels[frame.i + 2].v = Fill(@, 0)]
    /\ wrote' = {}
    /\ pc' = "down"
    /\ frame' = [frame EXCEPT !.i = @ + 1]
    /\ hist' = Logged(<<"fill", frame.i + 1>>)
    /\ UNCHANGED <<ret, par, pre>>

\* mutant: the FAS branch without nextLevel.f += nextLevel.r
FasInitNoAdd(g, i) ==
    The({applyStencil(g2, i + 1, "restV") :
         g2 \in {[g1 EXCEPT !.levels[i + 2].v = restrict(getLevel(g1, i).v, @)] :
         g1 \in {[g EXCEPT !.levels[i + 2].restV = restrict(getLevel(g, i).v, @)]}}})

\* the hierarchy after the FAS branch for the fine level i
FasInit(g, i) ==
    The({[g3 EXCEPT !.levels[i + 2].f = PlusEq(@, getLevel(g3, i + 1).r)] :
         g3 \in {applyStencil(g2, i + 1, "restV") :
         g2 \in {[g1 EXCEPT !.levels[i + 2].v = restrict(getLevel(g1, i).v, @)] :
         g1 \in {[g EXCEPT !.levels[i + 2].restV = restrict(getLevel(g, i).v, @)]}}}})

\* not isLinear: restrict v into restV and v, applyStencil on restV, f += r; then i++
VDownFAS ==
    /\ pc = "down_init"
    /\ ~grid.isLinear
    /\ grid' = FasInit(grid, frame.i)
    /\ wrote' = TargetsOf(frame.i + 1, "restV",
                          RestrictTargets(getLevel(grid, frame.i + 1).restV))
                  \cup TargetsOf(frame.i + 1, "v",
                                 RestrictTargets(getLevel(grid, frame.i + 1).v))
                  \cup TargetsOf(frame.i + 1, "r", InteriorLoop(getLevel(grid, frame.i + 1).levelDim))
    /\ pc' = "down"
    /\ frame' = [frame EXCEPT !.i = @ + 1]
    /\ hist' = Logged(<<"fas", frame.i + 1>>)
    /\ UNCHANGED <<ret, par, pre>>

\* mutant: the coarsest level gets the presmoothing sweeps only
CoarseSweepsPreOnly(g) == g.preSmoothing

\* the sweeps given to the coarsest level
CoarseSweeps(g) == g.preSmoothing + g.postSmoothing

\* the first loop has ended: jacobi(grid, numLevels()-1, preSmoothing+postSmoothing)
VCoarse ==
    /\ pc = "down"
    /\ ~(frame.i < numLevels(grid) - 1)
    /\ pc' = "jacobi"
    /\ frame' = [EnterJacobi(numLevels(grid) - 1, CoarseSweeps(grid), "up")
                   EXCEPT !.i = numLevels(grid) - 1]
    /\ wrote' = {}
    /\ UNCHANGED <<grid, hist, ret, par, pre>>

\* second loop of vcycle, i > 0, not isLinear: level.v -= level.restV
VUpSubtract ==
    /\ pc = "up"
    /\ frame.i > 0
    /\ ~grid.isLinear
    /\ grid' = [grid EXCEPT !.levels[frame.i + 1].v = MinusEq(@, getLevel(grid, frame.i).restV)]
    /\ wrote' = {}
    /\ pc' = "up_interp"
    /\ hist' = Logged(<<"subtract", frame.i>>)
    /\ UNCHANGED <<frame, ret, par, pre>>

\* interpolate(grid, i - 1)
VUpInterpolate ==
    /\ \/ pc = "up_interp"
       \/ pc = "up" /\ frame.i > 0 /\ grid.isLinear
    /\ grid' = interpolate(grid, frame.i - 1)
    /\ wrote' = TargetsOf(frame.i - 1, "e", InterpolateTargets(getLevel(grid, frame.i - 1).e))
    /\ pc' = "up_add"
    /\ hist' = Logged(<<"interpolate", frame.i - 1>>)
    /\ UNCHANGED <<frame, ret, par, pre>>

\* levelPrev.v += levelPrev.e
VUpAdd ==
    /\ pc = "up_add"
    /\ grid' = [grid EXCEPT !.levels[frame.i].v = PlusEq(@, getLevel(grid, frame.i - 1).e)]
    /\ wrote' = {}
    /\ pc' = "up_jacobi"
    /\ hist' = Logged(<<"add", frame.i - 1>>)
    /\ UNCHANGED <<frame, ret, par, pre>>

\* jacobi(grid, i - 1, postSmoothing); then i--
VUpJacobi ==
    /\ pc = "up_jacobi"
    /\ pc' = "jacobi"
    /\ frame' = [EnterJacobi(frame.i - 1, grid.postSmoothing, "up") EXCEPT !.i = @ - 1]
    /\ wrote' = {}
    /\ UNCHANGED <<grid, hist, ret, par, pre>>

\* the second loop has ended: return compResidual(grid, 0)
VReturn ==
    /\ pc = "up"
    /\ ~(frame.i > 0)
    /\ grid' = compResidual(grid, 0)
    /\ ret' = residualNorm(grid', 0)
    /\ wrote' = TargetsOf(0, "r", InteriorLoop(getLevel(grid, 0).levelDim))
    /\ IF frame.op = "solve"
       THEN /\ pc' = "solve"
            /\ frame' = [frame EXCEPT !.it = @ + 1]
            /\ hist' = Logged(<<"residual", 0>>)
       ELSE /\ pc' = "idle"
            /\ frame' = [frame EXCEPT !.op = "none"]
            /\ hist' = [Logged(<<"residual", 0>>) EXCEPT !.last = "vcycle"]
    /\ UNCHANGED <<par, pre>>

\* a call of solve(grid): the initial residual, then the loop from i = 0
CallSolve ==
    /\ Idle
    /\ grid' = compResidual(grid, 0)
    /\ ret' = residualNorm(grid', 0)
    /\ wrote' = TargetsOf(0, "r", InteriorLoop(getLevel(grid, 0).levelDim))
    /\ pc' = "solve"
    /\ frame' = [frame EXCEPT !.op = "solve", !.it = 0]
    /\ hist' = [Invoked("solve") EXCEPT !.cycles = 0, !.initRes = 1, !.log = <<>>]
    /\ UNCHANGED <<par, pre>>

\* solve's loop, i < grid.maxiter: vcycle(grid)
SolveIter ==
    /\ pc = "solve"
    /\ frame.it < grid.maxiter
    /\ pc' = "down"
    /\ frame' = [frame EXCEPT !.i = 0]
    /\ hist' = [hist EXCEPT !.cycles = @ + 1, !.log = <<>>]
    /\ wrote' = {}
    /\ UNCHANGED <<grid, ret, par, pre>>

\* mutant: solve also returns as soon as the residual is zero
SolveReturnOnZero ==
    /\ pc = "solve"
    /\ ~(frame.it < grid.maxiter) \/ ret = SqrtOf(0)
    /\ pc' = "idle"
    /\ frame' = [frame EXCEPT !.op = "none"]
    /\ hist' = [hist EXCEPT !.last = "solve"]
    /\ wrote' = {}
    /\ UNCHANGED <<grid, ret, par, pre>>

\* solve's loop ends and solve returns
SolveReturn ==
    /\ pc = "solve"
    /\ ~(frame.it < grid.maxiter)
    /\ pc' = "idle"
    /\ frame' = [frame EXCEPT !.op = "none"]
    /\ hist' = [hist EXCEPT !.last = "solve"]
    /\ wrote' = {}
    /\ UNCHANGED <<grid, ret, par, pre>>

\* the steps of a running solve, vcycle or jacobi
EngineStep ==
    \/ JacobiSweep \/ JacobiReturn
    \/ VDownJacobi \/ VDownResidual \/ VDownRestrict \/ VDownFill \/ VDownFAS
    \/ VCoarse \/ VUpSubtract \/ VUpInterpolate \/ VUpAdd \/ VUpJacobi \/ VReturn
    \/ SolveIter \/ SolveReturn

---------------------------------------------------------------------------
(* Hierarchies the engine is given *)

\* the initial guess v of the finest level
VFill(k, x, y, z) == IF k = 0 THEN 0 ELSE Num(x + 2 * y + 3 * z)

\* the right-hand side f of the finest level
FFill(k, x, y, z) == IF k = 0 THEN 0 ELSE Num(k)

\* a hierarchy after construction: v and f of level 0 filled on the interior
InitGrid(gridDim, n, isLinear, nu1, nu2, maxiter, vk, fk) ==
    LET g == NewGrid(gridDim, n, isLinear, nu1, nu2, maxiter)
    IN  [g EXCEPT !.levels[1].v =
                      Filled(gridDim, [c \in InteriorLoop(gridDim) |->
                                          VFill(vk, c[1], c[2], c[3])]),
                  !.levels[1].f =
                      Filled(gridDim, [c \in InteriorLoop(gridDim) |->
                                          FFill(fk, c[1], c[2], c[3])])]

InitFrame == [op |-> "none", it |-> 0, i |-> 0, jl |-> 0, jn |-> 0, ji |-> 0, jret |-> "idle"]

InitHist(budget) ==
    [log |-> <<>>, cycles |-> 0, initRes |-> 0, nops |-> 0, last |-> "none", budget |-> budget]

InitRest(budget) ==
    /\ pc = "idle"
    /\ frame = InitFrame
    /\ hist = InitHist(budget)
    /\ wrote = {}
    /\ ret = SqrtOf(0)
    /\ par = NoPar
    /\ pre = <<>>

\* <<gridDim, levels, v fill, f fill>>
SolveCases ==
    { <<<<3, 3, 3>>, 1, 1, 1>>, <<<<3, 3, 3>>, 2, 1, 1>>, <<<<4, 3, 5>>, 2, 1, 0>>,
      <<<<3, 3, 3>>, 2, 0, 0>>, <<<<7, 7, 7>>, 3, 1, 1>> }

Init ==
    /\ \E c \in SolveCases, lin \in BOOLEAN, nu1 \in 0 .. MaxNu, nu2 \in 0 .. MaxNu,
          maxiter \in 0 .. MaxIter :
          grid = InitGrid(c[1], c[2], lin, nu1, nu2, maxiter, c[3], c[4])
    /\ InitRest(1)

\* main: one call of solve on the hierarchy as constructed
Next == CallSolve \/ EngineStep

Spec == Init /\ [][Next]_vars

\* the hierarchies of at most two levels
FairCases == {c \in SolveCases : c[2] <= 2}

InitFair ==
    /\ \E c \in FairCases, lin \in BOOLEAN, nu1 \in 0 .. MaxNu, nu2 \in 0 .. MaxNu,
          maxiter \in 0 .. MaxIter :
          grid = InitGrid(c[1], c[2], lin, nu1, nu2, maxiter, c[3], c[4])
    /\ InitRest(1)

\* the thread running solve is always scheduled again
FairSpec == InitFair /\ [][Next]_vars /\ WF_vars(Next)

---------------------------------------------------------------------------
(* Properties of solve and vcycle *)

Repeat(n, ev) == [k \in 1 .. n |-> ev]

\* the calls of the downward leg from level l on, for a hierarchy of n levels
RECURSIVE DownLog(_, _, _, _)
DownLog(l, n, nu1, lin) ==
    IF l >= n - 1 THEN <<>>
    ELSE Repeat(nu1, <<"jacobi", l>>)
           \o << <<"residual", l>>, <<"restrict", l>>,
                 <<IF lin THEN "fill" ELSE "fas", l + 1>> >>
           \o DownLog(l + 1, n, nu1, lin)

\* the calls of the upward leg from level l down to level 1
RECURSIVE UpLog(_, _, _)
UpLog(l, nu2, lin) ==
    IF l <= 0 THEN <<>>
    ELSE (IF lin THEN <<>> ELSE << <<"subtract", l>> >>)
           \o << <<"interpolate", l - 1>>, <<"add", l - 1>> >>
           \o Repeat(nu2, <<"jacobi", l - 1>>)
           \o UpLog(l - 1, nu2, lin)

\* one V-cycle over n levels: 0, 1, ..., n-1, then n-2, ..., 0
CycleLog(n, nu1, nu2, lin) ==
    DownLog(0, n, nu1, lin) \o Repeat(nu1 + nu2, <<"jacobi", n - 1>>)
        \o UpLog(n - 1, nu2, lin) \o << <<"residual", 0>> >>

IsPrefix(s, t) == Len(s) <= Len(t) /\ \A k \in 1 .. Len(s) : s[k] = t[k]

AllZero(vec) == \A i \in DOMAIN vec.values : vec.values[i] = 0

\* a V-cycle is running
InCycle == frame.op \in {"solve", "vcycle"} /\ pc \notin {"solve", "idle"}

\* a V-cycle has returned and no other has begun
CycleDone ==
    \/ pc = "solve" /\ hist.cycles > 0
    \/ pc = "idle" /\ hist.last = "vcycle"
    \/ pc = "idle" /\ hist.last = "solve" /\ hist.cycles > 0

\* solve has returned
SolveDone == pc = "idle" /\ hist.last = "solve"

\* C6: solve terminates, and when it has returned it has run exactly maxiter
\* V-cycles after one initial residual computation, whatever the residuals were
C6_SolveRunsMaxiterCycles ==
    /\ [](hist.cycles <= grid.maxiter)
    /\ [](SolveDone => hist.cycles = grid.maxiter /\ hist.initRes = 1)
    /\ (frame.op = "solve") ~> SolveDone

\* C6 witness: solve returned after MaxIter cycles although every residual was zero
C6_Witness ==
    /\ SolveDone
    /\ hist.cycles = MaxIter
    /\ hist.cycles >= 2
    /\ ret = SqrtOf(0)
    /\ numLevels(grid) = 2

\* C8: a V-cycle makes its calls in the order of CycleLog (levels 0..L-1, then
\* L-2..0; nu1 sweeps before the restriction, nu1+nu2 on the coarsest level, nu2
\* after the correction is added), and in linear mode v of a coarser level is
\* all zero when its smoothing begins
C8_VcycleOrder ==
    LET want == CycleLog(numLevels(grid), grid.preSmoothing, grid.postSmoothing,
                         grid.isLinear)
    IN  /\ InCycle => IsPrefix(hist.log, want)
        /\ CycleDone => hist.log = want
        /\ (InCycle /\ pc = "down" /\ frame.i >= 1 /\ grid.isLinear)
              => AllZero(getLevel(grid, frame.i).v)

\* C8 witness: the second cycle of a linear solve over three levels reaches the
\* smoothing of level 1 with v zero there, the first cycle having interpolated
\* a nonzero v of level 1 into e of level 0
C8_Witness ==
    /\ InCycle /\ pc = "down" /\ frame.i = 1 /\ grid.isLinear
    /\ numLevels(grid) = 3
    /\ hist.cycles = 2
    /\ grid.preSmoothing = 1 /\ grid.postSmoothing = 1
    /\ ~AllZero(getLevel(grid, 0).e)

\* the levels l >= 1 with their interior cells
CoarseInterior(g, l) == InteriorLoop(getLevel(g, l).levelDim)

\* restV of some level changes in this step
RestVChanges(l) == getLevel(grid, l).restV # getLevel(grid, l).restV'

\* in a finished cycle level l is subtracted once, right before it is interpolated
SubtractedOnce(l) ==
    /\ Cardinality({k \in 1 .. Len(hist.log) : hist.log[k] = <<"subtract", l>>}) = 1
    /\ \A k \in 1 .. Len(hist.log) :
          hist.log[k] = <<"subtract", l>>
             => k < Len(hist.log) /\ hist.log[k + 1] = <<"interpolate", l - 1>>

\* C9: in nonlinear mode, when the smoothing of a level l >= 1 begins, v_l and
\* restV_l agree on the interior and f_l = restrict(r_{l-1}) + A(restV_l) there;
\* restV_l changes only in the FAS branch that sets it, and a finished cycle has
\* subtracted it from v_l exactly once, right before interpolating level l
C9_FasCoarseProblem ==
    /\ []((InCycle /\ pc = "down" /\ frame.i >= 1 /\ ~grid.isLinear)
            => \A c \in CoarseInterior(grid, frame.i) :
                  LET level == getLevel(grid, frame.i)
                  IN  /\ Get(level.v, c[1], c[2], c[3]) = Get(level.restV, c[1], c[2], c[3])
                      /\ Get(level.f, c[1], c[2], c[3])
                           = Add(RestrictPoint(getLevel(grid, frame.i - 1).r, "r",
                                               c[1], c[2], c[3]).val,
                                 StencilPoint(grid, level, "restV", c[1], c[2], c[3]).val))
    /\ []((CycleDone /\ ~grid.isLinear)
            => \A l \in 1 .. numLevels(grid) - 1 : SubtractedOnce(l))
    /\ [][\A l \in 0 .. numLevels(grid) - 1 :
             RestVChanges(l) => (pc = "down_init" /\ ~grid.isLinear /\ l = frame.i + 1)]_vars

\* C9 witness: a nonlinear cycle over three levels is about to smooth level 2,
\* whose restV is not zero
C9_Witness ==
    /\ InCycle /\ pc = "down" /\ frame.i = 2 /\ ~grid.isLinear
    /\ ~AllZero(getLevel(grid, 2).restV)
    /\ grid.preSmoothing = 1

---------------------------------------------------------------------------
(* Any sequence of engine operations *)

\* <<gridDim, levels, v fill, f fill>>
OpsCases == { <<<<3, 3, 3>>, 2, 1, 1>>, <<<<4, 3, 5>>, 2, 1, 1>> }

\* the pairs of fields vcycle passes to restrict
RestrictPairs == { <<"r", "f">>, <<"v", "restV">>, <<"v", "v">> }

InitOps ==
    /\ \E c \in OpsCases, lin \in BOOLEAN :
          grid = InitGrid(c[1], c[2], lin, MaxNu, MaxNu, 1, c[3], c[4])
    /\ InitRest(MaxOps)

\* a caller that invokes up to MaxOps operations, each from start to return
NextOps ==
    \/ \E l \in LevelNums : CallCompResidual(l)
    \/ \E l \in LevelNums, vname \in {"v", "restV"} : CallApplyStencil(l, vname)
    \/ \E l \in LevelNums, ft \in RestrictPairs : CallRestrict(l, ft[1], ft[2])
    \/ \E l \in LevelNums : CallInterpolate(l)
    \/ \E l \in LevelNums, n \in 1 .. MaxNu : CallJacobi(l, n)
    \/ CallVcycle
    \/ CallSolve
    \/ EngineStep

SpecOps == InitOps /\ [][NextOps]_vars

\* the cells of a padded field with a coordinate 0 or extent-1
HaloCells(dims) == {c \in Cells(dims) : ~IsInterior(dims, c)}

\* C1: after any sequence of engine operations, in linear and in nonlinear
\* mode, every halo cell of every field of every level holds zero
C1_HaloZero ==
    \A l \in LevelNums : \A fld \in FieldNames :
        \A c \in HaloCells(getLevel(grid, l)[fld].dims) :
            Get(getLevel(grid, l)[fld], c[1], c[2], c[3]) = 0

\* C1 witness: the second of two operations was an interpolate that stored
\* nonzero values in e of level 0
C1_Witness ==
    /\ pc = "idle"
    /\ hist.nops = 2
    /\ hist.last = "interpolate"
    /\ ~AllZero(getLevel(grid, 0).e)
    /\ \E t \in wrote : ~IsInterior(getLevel(grid, t[1])[t[2]].dims, <<t[3], t[4], t[5]>>)

\* the target t = <<level, field, x, y, z>> of a set() is an interior cell
InteriorTarget(t) == IsInterior(getLevel(grid, t[1])[t[2]].dims, <<t[3], t[4], t[5]>>)

\* C2 as stated: no set() of a kernel has a halo cell as its target
C2_NoHaloTarget == \A t \in wrote : InteriorTarget(t)

\* C2: compResidual, jacobi, applyStencil and restrict set() interior cells
\* only; a set() with a halo cell as its target is one of interpolate on e, and
\* the value it stored there is zero
C2_HaloTargetsOnlyInterpolate ==
    \A t \in wrote :
        \/ InteriorTarget(t)
        \/ /\ t[2] = "e"
           /\ Get(getLevel(grid, t[1]).e, t[3], t[4], t[5]) = 0

\* C2 witness: an interpolate has just stored into halo cells of e and into
\* interior cells of e, the latter nonzero
C2_Witness ==
    /\ hist.log # <<>> /\ hist.log[Len(hist.log)][1] = "interpolate"
    /\ \E t \in wrote : ~InteriorTarget(t) /\ t[2] = "e"
    /\ \E t \in wrote : InteriorTarget(t) /\ Get(getLevel(grid, t[1]).e, t[3], t[4], t[5]) # 0

---------------------------------------------------------------------------
(* The transfer operators on the fields of the two tests: a constant fine   *)
(* field for restrict, an affine coarse field for interpolate               *)

\* the interior extents of the fine level
KernelDims == { <<3, 3, 3>>, <<4, 4, 4>>, <<4, 5, 3>> }

\* the constants of the fine field: 1 and 3.5
KernelConsts == { 1, Div(7, 2) }

Coefs == 0 .. MaxCoef

\* c[i, j, k] = a*i + b*j + d*k
Affine(a, b, d, i, j, k) == Add(Add(Mul(a, Num(i)), Mul(b, Num(j))), Mul(d, Num(k)))

KernelGrid(dim, cst, a, b, d) ==
    LET g == NewGrid(dim, 2, TRUE, 0, 0, 0)
    IN  [g EXCEPT !.levels[1].r = Filled(dim, [c \in Padded(dim) |-> cst]),
                  !.levels[2].v =
                      Filled(CoarseDim(dim),
                             [c \in Padded(CoarseDim(dim)) |->
                                 Affine(a, b, d, c[1], c[2], c[3])])]

InitKernel ==
    /\ pc = "idle"
    /\ frame = InitFrame
    /\ hist = InitHist(MaxOps)
    /\ wrote = {}
    /\ ret = SqrtOf(0)
    /\ par = NoPar
    /\ \E dim \in KernelDims, cst \in KernelConsts, a \in Coefs, b \in Coefs, d \in Coefs :
          /\ pre = [c |-> cst, a |-> a, b |-> b, d |-> d]
          /\ grid = KernelGrid(dim, cst, a, b, d)

NextKernel ==
    \/ \E l \in LevelNums : CallRestrict(l, "r", "f")
    \/ \E l \in LevelNums : CallInterpolate(l)

SpecKernel == InitKernel /\ [][NextKernel]_vars

\* the affine function of the test at the half-indices (x/2, y/2, z/2)
AtHalfIndices(x, y, z) == Mul(Half, Affine(pre.a, pre.b, pre.d, x, y, z))

\* the interior cells of e of level 0 that a pass of interpolate has written
WrittenInterior ==
    {c \in InterpolateTargets(getLevel(grid, 0).e) : IsInterior(getLevel(grid, 0).e.dims, c)}

\* every coordinate of c is at most 2 * floor(N / 2) along its axis
BelowLastOdd(c) ==
    \A k \in 1 .. 3 : c[k] <= 2 * (getLevel(grid, 0).levelDim[k] \div 2)

\* C4 as stated: after interpolate of the affine coarse field, every interior
\* cell of e written by a pass, the last one N_i of each axis included, holds
\* the function at the half-indices
C4_AffineExactEverywhere ==
    (pc = "idle" /\ hist.last = "interpolate")
       => \A c \in WrittenInterior :
             Get(getLevel(grid, 0).e, c[1], c[2], c[3]) = AtHalfIndices(c[1], c[2], c[3])

\* C4: after interpolate of a coarse field that is affine on its whole padded
\* extent, every interior cell of e whose coordinates are at most
\* 2*floor(N_i/2) holds the function at the half-indices
C4_AffineExactBelowLastOdd ==
    (pc = "idle" /\ hist.last = "interpolate")
       => \A c \in WrittenInterior :
             BelowLastOdd(c)
                => Get(getLevel(grid, 0).e, c[1], c[2], c[3]) = AtHalfIndices(c[1], c[2], c[3])

\* C4 witness: an affine field with three nonzero coefficients was interpolated
\* onto a level with even and odd extents, and an averaged cell is not zero
C4_Witness ==
    /\ pc = "idle" /\ hist.last = "interpolate"
    /\ pre.a # 0 /\ pre.b # 0 /\ pre.d # 0
    /\ getLevel(grid, 0).levelDim = <<4, 5, 3>>
    /\ Get(getLevel(grid, 0).e, 1, 1, 1) = AtHalfIndices(1, 1, 1)
    /\ Get(getLevel(grid, 0).e, 1, 1, 1) # 0
    /\ Get(getLevel(grid, 0).e, 4, 4, 2) = AtHalfIndices(4, 4, 2)

\* the 27 weights of restrict added up
WeightSum ==
    Sum3([ii \in -1 .. 1 |->
        Sum3([jj \in -1 .. 1 |->
            Sum3([kk \in -1 .. 1 |-> Fac(ii, jj, kk)])])])

\* C5: after restrict of a fine field whose cells all hold c, every interior
\* coarse cell holds c; the 27 weights sum to one and every fine cell read
\* lies inside the fine field
C5_RestrictConstant ==
    (pc = "idle" /\ hist.last = "restrict"
        /\ \A i \in DOMAIN getLevel(grid, 0).r.values : getLevel(grid, 0).r.values[i] = pre.c)
       => /\ \A X \in InteriorLoop(getLevel(grid, 1).levelDim) :
                /\ Get(getLevel(grid, 1).f, X[1], X[2], X[3]) = pre.c
                /\ \A rd \in RestrictPoint(getLevel(grid, 0).r, "r", X[1], X[2], X[3]).reads :
                      IsCell(getLevel(grid, 0).r.dims, <<rd[2], rd[3], rd[4]>>)
          /\ WeightSum = 1

\* C5 witness: a fine field of 3.5 was restricted onto a coarse level with
\* interior cells, which now hold 3.5
C5_Witness ==
    /\ pc = "idle" /\ hist.last = "restrict"
    /\ pre.c = Div(7, 2)
    /\ getLevel(grid, 0).levelDim = <<4, 5, 3>>
    /\ InteriorLoop(getLevel(grid, 1).levelDim) # {}
    /\ Get(getLevel(grid, 1).f, 1, 2, 1) = Div(7, 2)

---------------------------------------------------------------------------
(* The parallel loops: #pragma omp parallel for schedule(static,8) over x, *)
(* run by a team of T threads one loop point at a time                     *)

CACHE_LINE_SIZE == 64

SizeofDouble == 8

THREAD_OFFSET == CACHE_LINE_SIZE \div SizeofDouble

ShardCount == 16

ChunkSize == 8

\* std::vector<double> shards(16 * THREAD_OFFSET), zero-initialised
NewShards == [i \in 0 .. ShardCount * THREAD_OFFSET - 1 |-> 0]

\* omp_get_thread_num() * THREAD_OFFSET
omp_rank(t) == t * THREAD_OFFSET

\* schedule(static,8): the thread of a team of T that runs the iteration x
Owner(x, T) == ((x - 1) \div ChunkSize) % T

\* p comes before q in the order of the three nested loops
Before(p, q) ==
    \/ p[1] < q[1]
    \/ p[1] = q[1] /\ p[2] < q[2]
    \/ p[1] = q[1] /\ p[2] = q[2] /\ p[3] < q[3]

\* the points of a loop in the order one thread runs them
InOrder(S) ==
    [i \in 1 .. Cardinality(S) |->
        CHOOSE q \in S : Cardinality({o \in S : Before(o, q)}) = i - 1]

\* the loop a kernel runs, as the set of its points
LoopOf(g, kernel, call) ==
    CASE kernel = "residual"     -> InteriorLoop(getLevel(g, call.level).levelDim)
      [] kernel = "update"       -> JacobiLoop(getLevel(g, call.level).levelDim)
      [] kernel = "applyStencil" -> InteriorLoop(getLevel(g, call.level).levelDim)
      [] kernel = "restrict"     -> RestrictLoop(getLevel(g, call.level + 1)[call.to])

\* the first parallel loop of an operation
FirstKernel(op) ==
    CASE op = "compResidual" -> "residual"
      [] op = "jacobi"       -> "residual"
      [] op = "applyStencil" -> "applyStencil"
      [] op = "restrict"     -> "restrict"

\* a parallel region begins: every thread gets its points, in loop order
StartLoop(g, kernel, call, T) ==
    [kernel |-> kernel,
     T      |-> T,
     work   |-> [t \in 0 .. T - 1 |->
                    SelectSeq(InOrder(LoopOf(g, kernel, call)),
                              LAMBDA q : Owner(q[1], T) = t)],
     pos    |-> [t \in 0 .. T - 1 |-> 0],
     acc    |-> {},
     shards |-> NewShards,
     slots  |-> {}]

\* the loop body of the running kernel at the point q: value, reads, target
BodyAt(g, kernel, call, q) ==
    LET level == getLevel(g, call.level)
    IN  CASE kernel = "residual" ->
               [pt |-> ResidualPoint(g, level, q[1], q[2], q[3]),
                to |-> <<call.level, "r", q[1], q[2], q[3]>>]
          [] kernel = "update" ->
               [pt |-> JacobiPoint(g, level, q[1], q[2], q[3]),
                to |-> <<call.level, "v", q[1], q[2], q[3]>>]
          [] kernel = "applyStencil" ->
               [pt |-> StencilPoint(g, level, call.vname, q[1], q[2], q[3]),
                to |-> <<call.level, "r", q[1], q[2], q[3]>>]
          [] kernel = "restrict" ->
               [pt |-> RestrictPoint(level[call.from], call.from, q[1], q[2], q[3]),
                to |-> <<call.level + 1, call.to>> \o RestrictTarget(q[1], q[2], q[3])]

\* thread t has run all its points
Finished(t) == par.pos[t] = Len(par.work[t])

\* what one loop point reads and writes, tagged with the thread
Accesses(t, call, body) ==
    {<<t, "r", call.level, rd[1], rd[2], rd[3], rd[4]>> : rd \in body.pt.reads}
        \cup {<<t, "w">> \o body.to}

\* a call of one operation from outside the engine, run by a team of pre.T threads
ParBegin ==
    /\ Idle
    /\ pc' = "par"
    /\ par' = StartLoop(grid, FirstKernel(pre.op), pre, pre.T)
    /\ pre' = [pre EXCEPT !.grid = grid]
    /\ hist' = Invoked(pre.op)
    /\ UNCHANGED <<grid, frame, wrote, ret>>

\* thread t runs its next loop point
ParStep(t) ==
    /\ pc = "par"
    /\ t \in DOMAIN par.pos
    /\ ~Finished(t)
    /\ \E body \in {BodyAt(grid, par.kernel, pre, par.work[t][par.pos[t] + 1])} :
          \E stepped \in {[par EXCEPT !.pos[t] = @ + 1,
                                      !.acc = @ \cup Accesses(t, pre, body)]} :
             /\ grid' = [grid EXCEPT !.levels[body.to[1] + 1][body.to[2]] =
                            Set(@, body.to[3], body.to[4], body.to[5], body.pt.val)]
             /\ wrote' = wrote \cup {body.to}
             /\ IF par.kernel # "residual"
                THEN par' = stepped /\ pc' = pc
                ELSE IF omp_rank(t) \in DOMAIN par.shards
                THEN /\ par' = [stepped EXCEPT !.shards[omp_rank(t)] = Add(@, Sq[body.pt.val]),
                                               !.slots = @ \cup {<<t, omp_rank(t)>>}]
                     /\ pc' = pc
                ELSE \* shards[omp_rank] is past the end of the vector: undefined
                     \* behaviour; the store lands outside the buffer or the
                     \* program is ended
                     /\ par' = [stepped EXCEPT !.slots = @ \cup {<<t, omp_rank(t)>>}]
                     /\ \E outcome \in {"lost", "abort"} :
                           pc' = IF outcome = "abort" THEN "aborted" ELSE pc
    /\ UNCHANGED <<frame, hist, ret, pre>>

\* res += shards[i] for i = 0, THREAD_OFFSET, 2 * THREAD_OFFSET, ...
RECURSIVE ShardSum(_, _)
ShardSum(shards, i) ==
    IF i \notin DOMAIN shards THEN 0
    ELSE Add(shards[i], ShardSum(shards, i + THREAD_OFFSET))

\* the implicit barrier at the end of a parallel loop, and what follows it
ParJoin ==
    /\ pc = "par"
    /\ \A t \in DOMAIN par.pos : Finished(t)
    /\ IF pre.op = "jacobi" /\ par.kernel = "residual"
       THEN /\ par' = StartLoop(grid, "update", pre, pre.T)
            /\ UNCHANGED <<pc, hist, ret>>
       ELSE /\ par' = [par EXCEPT !.kernel = "none"]
            /\ pc' = "idle"
            /\ hist' = [hist EXCEPT !.last = pre.op]
            /\ ret' = IF pre.op = "compResidual"
                      THEN SqrtOf(ShardSum(par.shards, 0)) ELSE ret
    /\ UNCHANGED <<grid, frame, wrote, pre>>

\* a hierarchy with every field of every level filled on the interior
FieldFill(fld, l, x, y, z) ==
    CASE fld = "v"     -> Num(x + 2 * y + 3 * z + l)
      [] fld = "f"     -> Num(2 * x + y + 5)
      [] fld = "r"     -> Num(x * y + z)
      [] fld = "restV" -> Num(3 * x + z * z)
      [] fld = "e"     -> Num(x + y * z)

FullGrid(gridDim, n, isLinear) ==
    LET g == NewGrid(gridDim, n, isLinear, MaxNu, MaxNu, 1)
    IN  [g EXCEPT !.levels =
            [l \in DOMAIN g.levels |->
                [fld \in DOMAIN g.levels[l] |->
                    IF fld \in FieldNames
                    THEN Filled(g.levels[l].levelDim,
                                [c \in InteriorLoop(g.levels[l].levelDim) |->
                                    FieldFill(fld, l, c[1], c[2], c[3])])
                    ELSE g.levels[l][fld]]]]

\* <<gridDim, levels, operation, level, v, from, to>>
ParCases ==
    { <<<<17, 1, 1>>, 1, "compResidual", 0, "v", "v", "v">>,
      <<<<17, 1, 1>>, 1, "jacobi", 0, "v", "v", "v">>,
      <<<<17, 1, 1>>, 1, "applyStencil", 0, "v", "v", "v">>,
      <<<<17, 1, 1>>, 1, "applyStencil", 0, "restV", "v", "v">>,
      <<<<9, 2, 1>>, 1, "jacobi", 0, "v", "v", "v">>,
      <<<<19, 3, 3>>, 2, "restrict", 0, "v", "r", "f">>,
      <<<<19, 3, 3>>, 2, "restrict", 0, "v", "v", "restV">>,
      <<<<19, 3, 3>>, 2, "restrict", 0, "v", "v", "v">>,
      <<<<19, 3, 3>>, 2, "compResidual", 1, "v", "v", "v">> }

InitParWith(cases, teams) ==
    /\ \E c \in cases, lin \in BOOLEAN, T \in teams :
          /\ grid = FullGrid(c[1], c[2], lin)
          /\ pre = [op |-> c[3], level |-> c[4], vname |-> c[5], from |-> c[6],
                    to |-> c[7], T |-> T, grid |-> grid]
    /\ pc = "idle"
    /\ frame = InitFrame
    /\ hist = InitHist(1)
    /\ wrote = {}
    /\ ret = SqrtOf(0)
    /\ par = NoPar

InitPar == InitParWith(ParCases, 1 .. MaxThreads)

NextPar == ParBegin \/ (\E t \in 0 .. MaxThreads - 1 : ParStep(t)) \/ ParJoin

SpecPar == InitPar /\ [][NextPar]_vars

\* the operation of pre run by one thread on the hierarchy it was called with
SequentialResult ==
    CASE pre.op = "compResidual" -> compResidual(pre.grid, pre.level)
      [] pre.op = "jacobi"       -> jacobiSweep(pre.grid, pre.level)
      [] pre.op = "applyStencil" -> applyStencil(pre.grid, pre.level, pre.vname)
      [] pre.op = "restrict"     ->
            [pre.grid EXCEPT !.levels[pre.level + 2][pre.to] =
                restrict(getLevel(pre.grid, pre.level)[pre.from], @)]

\* two accesses of different threads to one cell, one of them a write
Conflict(a, b) ==
    /\ a[1] # b[1]
    /\ <<a[3], a[4], a[5], a[6], a[7]>> = <<b[3], b[4], b[5], b[6], b[7]>>
    /\ a[2] = "w" \/ b[2] = "w"

Returned(op) == pc = "idle" /\ hist.last = op

\* C7: in the parallel loops of compResidual, jacobi, applyStencil and restrict,
\* with the x iterations dealt out to a team of any size, no cell of a level
\* field is written by one thread and read or written by another within one
\* loop, and whatever the interleaving of the threads' loop points the fields
\* after the operation are those one thread alone produces.
C7_ParallelEqualsSequential ==
    /\ hist.nops > 0 => \A a \in par.acc : \A b \in par.acc : ~Conflict(a, b)
    /\ \A op \in {"compResidual", "jacobi", "applyStencil", "restrict"} :
          Returned(op) => grid = SequentialResult

\* a team of two threads, both with loop points, has finished a Jacobi sweep
C7_Witness ==
    /\ Returned("jacobi")
    /\ pre.T = 2
    /\ \A t \in DOMAIN par.work : Len(par.work[t]) > 0
    /\ grid # pre.grid

---------------------------------------------------------------------------
(* compResidual and its per-thread accumulators *)

ResidualDims == { <<129, 1, 1>>, <<9, 2, 1>> }

ResidualCases == { <<d, 1, "compResidual", 0, "v", "v", "v">> : d \in ResidualDims }

\* team sizes: one thread, two, as many as shards has slots, and one more
ResidualTeams == {1, 2, ShardCount, ShardCount + 1}

InitResidual == InitParWith(ResidualCases, ResidualTeams)

\* the threads of the team run one after another
ParStepInTurn ==
    /\ pc = "par"
    /\ \E t \in DOMAIN par.pos :
          /\ \A u \in DOMAIN par.pos : u < t => Finished(u)
          /\ ParStep(t)

NextResidual == ParBegin \/ ParStepInTurn \/ ParJoin

SpecResidual == InitResidual /\ [][NextResidual]_vars

\* (A v)(x, y, z), summed from the last stencil entry to the first
RefApply(g, level, x, y, z) ==
    LET st == g.stencil
        acc[i \in 0 .. Len(st.values)] ==
            IF i = 0 THEN 0
            ELSE Add(acc[i - 1],
                     Mul(st.values[Len(st.values) + 1 - i],
                         Get(level.v, x + st.offsets[Len(st.values) + 1 - i][1],
                                      y + st.offsets[Len(st.values) + 1 - i][2],
                                      z + st.offsets[Len(st.values) + 1 - i][3])))
        lin == Div(acc[Len(st.values)], Mul(level.h, level.h))
    IN  IF g.isLinear THEN lin
        ELSE Add(lin, Mul(g.gamma, Mul(Get(level.v, x, y, z), Exp(Get(level.v, x, y, z)))))

\* C3: compResidual stores r = f - A v at every interior point, A v agreeing
\* with an independent application of the operator, leaves v and f as they
\* were, and returns the square root of the sum of r^2 over the interior.
C3_ResidualIsFMinusAv ==
    Returned("compResidual") =>
        /\ getLevel(grid, pre.level).v = getLevel(pre.grid, pre.level).v
        /\ getLevel(grid, pre.level).f = getLevel(pre.grid, pre.level).f
        /\ \A c \in InteriorLoop(getLevel(grid, pre.level).levelDim) :
              Get(getLevel(grid, pre.level).r, c[1], c[2], c[3])
                = Sub(Get(getLevel(pre.grid, pre.level).f, c[1], c[2], c[3]),
                      RefApply(pre.grid, getLevel(pre.grid, pre.level), c[1], c[2], c[3]))
        /\ ret = SqrtOf(SumSq(getLevel(grid, pre.level).r,
                              InteriorLoop(getLevel(grid, pre.level).levelDim)))

\* the three parts of C3 that concern the fields alone
C3_FieldsOnly ==
    Returned("compResidual") =>
        /\ getLevel(grid, pre.level).v = getLevel(pre.grid, pre.level).v
        /\ getLevel(grid, pre.level).f = getLevel(pre.grid, pre.level).f
        /\ \A c \in InteriorLoop(getLevel(grid, pre.level).levelDim) :
              Get(getLevel(grid, pre.level).r, c[1], c[2], c[3])
                = Sub(Get(getLevel(pre.grid, pre.level).f, c[1], c[2], c[3]),
                      RefApply(pre.grid, getLevel(pre.grid, pre.level), c[1], c[2], c[3]))

\* C10: every thread of a team of any size T >= 1 accumulates r^2 only into
\* the slot thread_id * 8 of shards, that slot lies inside shards, no two
\* threads use one slot, and the sum over the slots that compResidual
\* returns the root of is the sum of r^2 over the interior.
C10_ShardSlots ==
    /\ hist.nops > 0 =>
          \A a \in par.slots :
             /\ a[2] = a[1] * 8
             /\ a[2] \in DOMAIN par.shards
             /\ \A b \in par.slots : a[2] = b[2] => a[1] = b[1]
    /\ Returned("compResidual") =>
          ret = SqrtOf(SumSq(getLevel(grid, pre.level).r,
                             InteriorLoop(getLevel(grid, pre.level).levelDim)))

=============================================================================
